---- MODULE Spec2Model ----
(***************************************************************************)
(* Model of the logistics graph (logistica_nx): a directed graph whose     *)
(* edges carry four weather profiles and one active 'weight', the weather  *)
(* selector, and the routing queries computed over the active weights.     *)
(*                                                                         *)
(* The program state is the LogisticaGraph object: self.graph (an          *)
(* nx.DiGraph: node set + edge attribute dictionaries) and                 *)
(* self.current_weather.  ret records the last completed call: its name,   *)
(* the exception it let escape (if any) and the value it returned.         *)
(*                                                                         *)
(* Spec is the object under its mutating methods (graph.py); SpecQ applies *)
(* the read-only queries (algorithms.py) to graphs built beforehand.       *)
(*                                                                         *)
(* The networkx routines the code calls are modelled by the algorithms     *)
(* they run: Dijkstra's labelling for the weighted shortest path,          *)
(* Floyd-Warshall over a defaultdict for all pairs, classes of mutual      *)
(* reachability for the strongly connected components.  All times are      *)
(* non-negative, as the data model has them.                               *)
(*                                                                         *)
(* Iteration order of the DiGraph's dictionaries depends on the insertion  *)
(* history; every place where the code iterates over nodes and the order   *)
(* can change the result takes the order as a parameter `ord`, and the     *)
(* actions range over every order of the node set.                         *)
(***************************************************************************)
EXTENDS Integers, Sequences, FiniteSets, TLC

VARIABLES graph, current_weather, ret

vars == <<graph, current_weather, ret>>

-----------------------------------------------------------------------------
(* Bounds of the model *)

\* add_connection / load_from_file are not taken when they would leave more
\* than MaxEdges edges in the graph
MaxEdges == 3

\* city names known to the model, in lexicographic order (sorted())
SortedCities == <<"A", "B", "C", "D">>

Cities == {SortedCities[i] : i \in 1..Len(SortedCities)}

\* cities typed in by the user for add_city / add_connection
InputCities == {"A", "B", "C"}

\* Python's Optional values: None is the empty set, a present value x is {x}
None == {}

Some(x) == {x}

TheValue(o) == CHOOSE x \in o : TRUE

\* float('inf') / np.inf
Inf == 1000000

valid_weather == <<"normal", "rain", "snow", "storm">>

ValidWeatherSet == {valid_weather[i] : i \in 1..Len(valid_weather)}

\* weather names passed to set_weather: the valid ones and an invalid one
WeatherInputs == ValidWeatherSet \cup {"fog"}

Times(n, r, s, t) == [normal |-> n, rain |-> r, snow |-> s, storm |-> t]

\* the `times` dictionaries passed to add_connection
TimesInputs == {Times(5, 8, 10, 15), Times(1, 2, 20, 0)}

-----------------------------------------------------------------------------
(* nx.DiGraph primitives used by the code *)

EmptyGraph == [nodes |-> {}, edges |-> [e \in {} |-> 0]]

EdgeSet(G) == DOMAIN G.edges

has_node(G, n) == n \in G.nodes

has_edge(G, u, v) == <<u, v>> \in EdgeSet(G)

add_node(G, n) == [G EXCEPT !.nodes = @ \cup {n}]

\* DiGraph.add_edge(u, v, **attr): adds missing endpoints, then updates the
\* edge's attribute dictionary with attr (keys not in attr are kept)
add_edge(G, u, v, attr) ==
    LET old == IF has_edge(G, u, v) THEN G.edges[<<u, v>>] ELSE <<>>
        new == [k \in DOMAIN old \cup DOMAIN attr |->
                   IF k \in DOMAIN attr THEN attr[k] ELSE old[k]]
    IN  [nodes |-> G.nodes \cup {u, v},
         edges |-> [e \in EdgeSet(G) \cup {<<u, v>>} |->
                       IF e = <<u, v>> THEN new ELSE G.edges[e]]]

remove_edge(G, u, v) ==
    [G EXCEPT !.edges = [e \in EdgeSet(G) \ {<<u, v>>} |-> G.edges[e]]]

\* graph[u][v]['weight']
Weight(G, u, v) == G.edges[<<u, v>>].weight

\* keyword arguments of the add_edge calls
EdgeAttrs(times, w) ==
    [normal |-> times.normal, rain |-> times.rain, snow |-> times.snow,
     storm |-> times.storm, weight |-> w]

-----------------------------------------------------------------------------
(* LogisticaGraph: each operator maps the object's state                   *)
(* [graph, current_weather] to the state after the call plus the returned  *)
(* value [graph, current_weather, ret].                                    *)

Result(G, cw, r) == [graph |-> G, current_weather |-> cw, ret |-> r]

\* __init__
NewLogisticaGraph == Result(EmptyGraph, "normal", None)

\* (variant of set_weather: the selection is recorded, the weights are left
\* to be looked up later)
set_weather_lazy(G, cw, weather_type) ==
    IF weather_type \notin ValidWeatherSet
    THEN Result(G, cw, FALSE)
    ELSE Result(G, weather_type, TRUE)

\* (variant of set_weather: the weights are rewritten from the profile of
\* the weather that was current before the call)
set_weather_stale(G, cw, weather_type) ==
    IF weather_type \notin ValidWeatherSet
    THEN Result(G, cw, FALSE)
    ELSE Result([G EXCEPT !.edges =
                    [e \in EdgeSet(G) |->
                        [G.edges[e] EXCEPT !.weight = G.edges[e][cw]]]],
                weather_type, TRUE)

\* set_weather: rejects a name outside valid_weather, otherwise records it
\* and rewrites the weight of every edge from the matching profile
set_weather(G, cw, weather_type) ==
    IF weather_type \notin ValidWeatherSet
    THEN Result(G, cw, FALSE)
    ELSE Result([G EXCEPT !.edges =
                    [e \in EdgeSet(G) |->
                        [G.edges[e] EXCEPT !.weight = G.edges[e][weather_type]]]],
                weather_type, TRUE)

add_city(G, cw, city_name) ==
    IF city_name \in G.nodes
    THEN Result(G, cw, FALSE)
    ELSE Result(add_node(G, city_name), cw, TRUE)

\* (variant of add_connection: the new edge gets the normal time as weight,
\* as in load_from_file)
add_connection_default_weight(G, cw, from_city, to_city, times) ==
    LET G1 == IF from_city \notin G.nodes
              THEN add_city(G, cw, from_city).graph ELSE G
        G2 == IF to_city \notin G1.nodes
              THEN add_city(G1, cw, to_city).graph ELSE G1
    IN  Result(add_edge(G2, from_city, to_city, EdgeAttrs(times, times.normal)),
               cw, TRUE)

add_connection(G, cw, from_city, to_city, times) ==
    LET G1 == IF from_city \notin G.nodes
              THEN add_city(G, cw, from_city).graph ELSE G
        G2 == IF to_city \notin G1.nodes
              THEN add_city(G1, cw, to_city).graph ELSE G1
    IN  Result(add_edge(G2, from_city, to_city, EdgeAttrs(times, times[cw])),
               cw, TRUE)

\* (variant of remove_connection: the edge is removed in both directions)
remove_connection_both_ways(G, cw, from_city, to_city) ==
    IF from_city \notin G.nodes \/ to_city \notin G.nodes
    THEN Result(G, cw, FALSE)
    ELSE IF ~has_edge(G, from_city, to_city)
    THEN Result(G, cw, FALSE)
    ELSE Result(remove_edge(remove_edge(G, from_city, to_city), to_city, from_city), cw, TRUE)

remove_connection(G, cw, from_city, to_city) ==
    IF from_city \notin G.nodes \/ to_city \notin G.nodes
    THEN Result(G, cw, FALSE)
    ELSE IF ~has_edge(G, from_city, to_city)
    THEN Result(G, cw, FALSE)
    ELSE Result(remove_edge(G, from_city, to_city), cw, TRUE)

\* One line of a data file after line.strip().split():
\*   "edge"  - six or more fields, the four times parse as floats
\*   "short" - fewer than six fields (skipped)
\*   "bad"   - six fields, one of the times does not parse (float() raises)
Line(from_city, to_city, times) ==
    [kind |-> "edge", from |-> from_city, to |-> to_city, times |-> times]

ShortLine == [kind |-> "short", from |-> "", to |-> "", times |-> Times(0, 0, 0, 0)]

BadLine == [kind |-> "bad", from |-> "", to |-> "", times |-> Times(0, 0, 0, 0)]

\* body of the `for line in file` loop, from line i on; a "bad" line raises,
\* which ends the loop with the edges of the earlier lines already added
RECURSIVE load_lines(_, _, _)
load_lines(G, lines, i) ==
    IF i > Len(lines) THEN [graph |-> G, ok |-> TRUE]
    ELSE LET l == lines[i] IN
         IF l.kind = "short" THEN load_lines(G, lines, i + 1)
         ELSE IF l.kind = "bad" THEN [graph |-> G, ok |-> FALSE]
         ELSE LET G1 == IF ~has_node(G, l.from) THEN add_node(G, l.from) ELSE G
                  G2 == IF ~has_node(G1, l.to) THEN add_node(G1, l.to) ELSE G1
              IN  load_lines(add_edge(G2, l.from, l.to,
                                      EdgeAttrs(l.times, l.times.normal)),
                             lines, i + 1)

\* load_from_file: a missing file returns False with the graph untouched
load_from_file(G, cw, file) ==
    IF ~file.exists THEN Result(G, cw, FALSE)
    ELSE LET r == load_lines(G, file.lines, 1)
         IN  Result(r.graph, cw, r.ok)

\* the file written by the sample_graph fixture of the tests
SampleFile ==
    [exists |-> TRUE,
     lines |-> << Line("A", "B", Times(5, 8, 10, 15)),
                  Line("B", "C", Times(3, 4, 6, 9)),
                  Line("C", "D", Times(2, 3, 5, 8)),
                  Line("A", "D", Times(15, 20, 25, 30)) >>]

MissingFile == [exists |-> FALSE, lines |-> <<>>]

\* a file with a short line and, further down, a line that does not parse
BrokenFile ==
    [exists |-> TRUE,
     lines |-> << Line("B", "A", Times(3, 4, 6, 9)),
                  ShortLine,
                  BadLine,
                  Line("C", "A", Times(2, 3, 5, 8)) >>]

\* the first two lines of the sample file
SmallFile ==
    [exists |-> TRUE,
     lines |-> << Line("A", "B", Times(5, 8, 10, 15)),
                  Line("B", "C", Times(3, 4, 6, 9)) >>]

Files == {SampleFile, SmallFile, MissingFile, BrokenFile}

-----------------------------------------------------------------------------
(* Arithmetic on floats that may be inf *)

Add(a, b) == IF a = Inf \/ b = Inf THEN Inf ELSE a + b

Min2(a, b) == IF a < b THEN a ELSE b

Max2(a, b) == IF a > b THEN a ELSE b

\* all orders (sequences without repetition) of a finite set
Orders(S) ==
    {f \in [1..Cardinality(S) -> S] : \A i, j \in 1..Cardinality(S) : f[i] = f[j] => i = j}

\* position of x in the order ord
Pos(ord, x) == CHOOSE i \in 1..Len(ord) : ord[i] = x

-----------------------------------------------------------------------------
(* networkx: weighted shortest path (Dijkstra labelling)                   *)

\* successors of v with their edge
Successors(G, v) == {u \in G.nodes : has_edge(G, v, u)}

\* (variant of dijkstra_loop: a node that already has a tentative label never
\* gets a better one)
RECURSIVE dijkstra_loop_first_label(_, _, _, _, _, _)
dijkstra_loop_first_label(G, target, ord, dist, seen, paths) ==
    LET fringe == DOMAIN seen \ DOMAIN dist IN
    IF fringe = {} THEN [dist |-> dist, paths |-> paths]
    ELSE
      LET best == {v \in fringe : \A x \in fringe : seen[v] <= seen[x]}
          v == CHOOSE x \in best : \A y \in best : Pos(ord, x) <= Pos(ord, y)
          dist1 == (v :> seen[v]) @@ dist
      IN  IF v = target THEN [dist |-> dist1, paths |-> paths]
          ELSE
            LET improved == {u \in Successors(G, v) \ DOMAIN dist1 : u \notin DOMAIN seen}
                seen1 == [u \in DOMAIN seen \cup improved |->
                            IF u \in improved THEN dist1[v] + Weight(G, v, u)
                            ELSE seen[u]]
                paths1 == [u \in DOMAIN paths \cup improved |->
                            IF u \in improved THEN Append(paths[v], u)
                            ELSE paths[u]]
            IN  dijkstra_loop_first_label(G, target, ord, dist1, seen1, paths1)

\* Main loop of the labelling: dist holds the final labels, seen the tentative
\* ones, paths the path by which each seen node was reached.  The node
\* taken from the fringe is one with the smallest tentative label; among equal
\* labels the heap order decides, given here by ord.  The loop ends when
\* the target is finalised or the fringe is empty.
RECURSIVE dijkstra_loop(_, _, _, _, _, _)
dijkstra_loop(G, target, ord, dist, seen, paths) ==
    LET fringe == DOMAIN seen \ DOMAIN dist IN
    IF fringe = {} THEN [dist |-> dist, paths |-> paths]
    ELSE
      LET best == {v \in fringe : \A x \in fringe : seen[v] <= seen[x]}
          v == CHOOSE x \in best : \A y \in best : Pos(ord, x) <= Pos(ord, y)
          dist1 == (v :> seen[v]) @@ dist
      IN  IF v = target THEN [dist |-> dist1, paths |-> paths]
          ELSE
            LET improved == {u \in Successors(G, v) \ DOMAIN dist1 :
                               u \notin DOMAIN seen
                               \/ dist1[v] + Weight(G, v, u) < seen[u]}
                seen1 == [u \in DOMAIN seen \cup improved |->
                            IF u \in improved THEN dist1[v] + Weight(G, v, u)
                            ELSE seen[u]]
                paths1 == [u \in DOMAIN paths \cup improved |->
                            IF u \in improved THEN Append(paths[v], u)
                            ELSE paths[u]]
            IN  dijkstra_loop(G, target, ord, dist1, seen1, paths1)

dijkstra(G, source, target, ord) ==
    dijkstra_loop(G, target, ord, <<>>, (source :> 0), (source :> <<source>>))

\* nx.shortest_path(G, source, target, weight='weight'):
\* the path, or NetworkXNoPath raised when the target gets no label
nx_shortest_path(G, source, target, ord) ==
    LET r == dijkstra(G, source, target, ord) IN
    IF target \in DOMAIN r.dist
    THEN [exc |-> None, value |-> r.paths[target]]
    ELSE [exc |-> Some("NetworkXNoPath"), value |-> <<>>]

\* nx.shortest_path_length(G, source, target, weight='weight')
nx_shortest_path_length(G, source, target, ord) ==
    LET r == dijkstra(G, source, target, ord) IN
    IF target \in DOMAIN r.dist
    THEN [exc |-> None, value |-> r.dist[target]]
    ELSE [exc |-> Some("NetworkXNoPath"), value |-> 0]

-----------------------------------------------------------------------------
(* algorithms.shortest_path *)

\* total_distance: the sum of graph[path[i]][path[i+1]]['weight']
RECURSIVE total_distance(_, _, _)
total_distance(G, path, i) ==
    IF i >= Len(path) THEN 0
    ELSE Weight(G, path[i], path[i + 1]) + total_distance(G, path, i + 1)

\* returns the tuple (path, distance); (None, None) on both failures
shortest_path(G, start, end, ord) ==
    IF start \notin G.nodes \/ end \notin G.nodes
    THEN <<None, None>>
    ELSE LET r == nx_shortest_path(G, start, end, ord) IN
         IF r.exc = None
         THEN <<Some(r.value), Some(total_distance(G, r.value, 1))>>
         ELSE <<None, None>>

-----------------------------------------------------------------------------
(* algorithms.all_pairs_shortest_paths: nx.floyd_warshall                  *)

\* dist is a defaultdict of defaultdicts with default inf: reading a missing
\* entry yields inf and creates the entry.  It is modelled as a function on
\* the set of pairs that have an entry.
Get(dist, u, v) == IF <<u, v>> \in DOMAIN dist THEN dist[<<u, v>>] ELSE Inf

Touch(dist, u, v) == IF <<u, v>> \in DOMAIN dist THEN dist ELSE (<<u, v>> :> Inf) @@ dist

\* (variant of fw_init: the diagonal is not set to 0)
fw_init_no_diagonal(G) == [p \in EdgeSet(G) |-> Weight(G, p[1], p[2])]

\* dist[u][u] = 0 for every node, then dist[u][v] = min(weight, dist[u][v])
\* for every edge
fw_init(G) ==
    LET zero == [p \in {<<u, u>> : u \in G.nodes} |-> 0]
    IN  [p \in DOMAIN zero \cup EdgeSet(G) |->
            IF p \in EdgeSet(G) THEN Min2(Weight(G, p[1], p[2]), Get(zero, p[1], p[2]))
            ELSE 0]

\* (variant of fw_loop: the comparison is the other way round)
RECURSIVE fw_loop_reversed(_, _, _)
fw_loop_reversed(dist, ord, k) ==
    LET n == Len(ord) IN
    IF k >= n * n * n THEN dist
    ELSE LET w == ord[(k \div (n * n)) + 1]
             u == ord[((k \div n) % n) + 1]
             v == ord[(k % n) + 1]
             d == Add(Get(dist, u, w), Get(dist, w, v))
             touched == Touch(Touch(Touch(dist, u, w), w, v), u, v)
         IN  IF touched[<<u, v>>] < d
             THEN fw_loop_reversed([touched EXCEPT ![<<u, v>>] = d], ord, k + 1)
             ELSE fw_loop_reversed(touched, ord, k + 1)

\* for w in G: for u in G: for v in G, the three counters run over ord and
\* k numbers the iterations from 0; the innermost statement is
\*   d = dist_u[w] + dist_w[v]; if dist_u[v] > d: dist_u[v] = d
\* and its three reads create the entries they miss
RECURSIVE fw_loop(_, _, _)
fw_loop(dist, ord, k) ==
    LET n == Len(ord) IN
    IF k >= n * n * n THEN dist
    ELSE LET w == ord[(k \div (n * n)) + 1]
             u == ord[((k \div n) % n) + 1]
             v == ord[(k % n) + 1]
             d == Add(Get(dist, u, w), Get(dist, w, v))
             touched == Touch(Touch(Touch(dist, u, w), w, v), u, v)
         IN  IF touched[<<u, v>>] > d
             THEN fw_loop([touched EXCEPT ![<<u, v>>] = d], ord, k + 1)
             ELSE fw_loop(touched, ord, k + 1)

floyd_warshall(G, ord) == fw_loop(fw_init(G), ord, 0)

all_pairs_shortest_paths(G, ord) == floyd_warshall(G, ord)

-----------------------------------------------------------------------------
(* algorithms.find_center *)

\* nodes reachable from the set `from` along directed edges
RECURSIVE ReachSet(_, _)
ReachSet(G, from) ==
    LET next == from \cup {v \in G.nodes : \E u \in from : has_edge(G, u, v)}
    IN  IF next = from THEN from ELSE ReachSet(G, next)

Reachable(G, u, v) == v \in ReachSet(G, {u})

\* nx.strongly_connected_components: the classes of mutual reachability
strongly_connected_components(G) ==
    {{v \in G.nodes : Reachable(G, u, v) /\ Reachable(G, v, u)} : u \in G.nodes}

\* nx.is_strongly_connected (raises NetworkXPointlessConcept on the null graph)
is_strongly_connected(G) == Cardinality(strongly_connected_components(G)) = 1

\* the components max(..., key=len) can return: one of maximum size, which
\* one depends on the order in which the library yields them
LargestComponents(G) ==
    {c \in strongly_connected_components(G) :
        \A d \in strongly_connected_components(G) : Cardinality(c) >= Cardinality(d)}

\* graph.subgraph(nodes).copy()
subgraph(G, nodes) ==
    [nodes |-> G.nodes \cap nodes,
     edges |-> [e \in {x \in EdgeSet(G) : x[1] \in nodes /\ x[2] \in nodes} |-> G.edges[e]]]

\* the working graph of find_center; largest_scc is the component max() returned
working_graph(G, largest_scc) ==
    IF ~is_strongly_connected(G) THEN subgraph(G, largest_scc) ELSE G

\* inner loop over the targets (in the order ord, from position j on):
\* the running maximum of the distances, a target without path is skipped
RECURSIVE max_distance(_, _, _, _, _)
max_distance(S, node, ord, j, acc) ==
    IF j > Len(ord) THEN acc
    ELSE LET target == ord[j] IN
         IF node = target THEN max_distance(S, node, ord, j + 1, acc)
         ELSE LET r == nx_shortest_path_length(S, node, target, ord)
              IN  IF r.exc = None
                  THEN max_distance(S, node, ord, j + 1, Max2(acc, r.value))
                  ELSE max_distance(S, node, ord, j + 1, acc)

\* the eccentricity dictionary: max_distance starts at 0 for every node
eccentricity(S, ord) == [node \in S.nodes |-> max_distance(S, node, ord, 1, 0)]

\* (variant of min_item: max instead of min)
max_item(ecc, ord) ==
    LET largest == {n \in DOMAIN ecc : \A m \in DOMAIN ecc : ecc[n] >= ecc[m]}
    IN  CHOOSE n \in largest : \A m \in largest : Pos(ord, n) <= Pos(ord, m)

\* min(eccentricity.items(), key=lambda x: x[1])[0]: the first item, in the
\* dictionary's (insertion) order, among those of smallest eccentricity
min_item(ecc, ord) ==
    LET smallest == {n \in DOMAIN ecc : \A m \in DOMAIN ecc : ecc[n] <= ecc[m]}
    IN  CHOOSE n \in smallest : \A m \in smallest : Pos(ord, n) <= Pos(ord, m)

\* ord is the iteration order of subgraph.nodes()
find_center(G, largest_scc, ord) ==
    IF G.nodes = {}
    THEN [exc |-> Some("NetworkXPointlessConcept"), value |-> None]
    ELSE LET S == working_graph(G, largest_scc)
             ecc == eccentricity(S, ord)
         IN  IF DOMAIN ecc # {}
             THEN [exc |-> None, value |-> Some(min_item(ecc, ord))]
             ELSE [exc |-> None, value |-> None]

-----------------------------------------------------------------------------
(* algorithms.get_adjacency_matrix *)

Rank(c) == CHOOSE i \in 1..Len(SortedCities) : SortedCities[i] = c

\* sorted(): repeatedly takes the smallest remaining name
RECURSIVE sorted(_)
sorted(S) ==
    IF S = {} THEN <<>>
    ELSE LET m == CHOOSE x \in S : \A y \in S : Rank(x) <= Rank(y)
         IN  <<m>> \o sorted(S \ {m})

\* (variant of np_full: np.zeros, the fill value is ignored)
np_zeros(n, x) == [c \in (1..n) \X (1..n) |-> 0]

\* np.full((n, n), np.inf)
np_full(n, x) == [c \in (1..n) \X (1..n) |-> x]

\* the inner loop `for j, to_node in enumerate(nodes)` of row i from column j on
RECURSIVE fill_row(_, _, _, _, _)
fill_row(G, nodes, adj_matrix, i, j) ==
    IF j > Len(nodes) THEN adj_matrix
    ELSE IF has_edge(G, nodes[i], nodes[j])
         THEN fill_row(G, nodes, [adj_matrix EXCEPT ![<<i, j>>] = Weight(G, nodes[i], nodes[j])],
                       i, j + 1)
         ELSE fill_row(G, nodes, adj_matrix, i, j + 1)

\* the outer loop from row i on: the diagonal cell is set to 0, then the row
\* is filled
RECURSIVE fill_matrix(_, _, _, _)
fill_matrix(G, nodes, adj_matrix, i) ==
    IF i > Len(nodes) THEN adj_matrix
    ELSE fill_matrix(G, nodes,
                     fill_row(G, nodes, [adj_matrix EXCEPT ![<<i, i>>] = 0], i, 1),
                     i + 1)

\* returns the tuple (adj_matrix, nodes)
get_adjacency_matrix(G) ==
    LET nodes == sorted(G.nodes)
    IN  <<fill_matrix(G, nodes, np_full(Len(nodes), Inf), 1), nodes>>

-----------------------------------------------------------------------------------------------------------------------------------------------------
(* The LogisticaGraph object: one action per completed mutating call *)

Returned(call, value) == [call |-> call, exc |-> None, value |-> value]

Init ==
    /\ graph = NewLogisticaGraph.graph
    /\ current_weather = NewLogisticaGraph.current_weather
    /\ ret = Returned("__init__", None)

\* the object's state after a mutating call that returned r
Becomes(call, r) ==
    /\ graph' = r.graph
    /\ current_weather' = r.current_weather
    /\ ret' = Returned(call, r.ret)

WithinBounds(r) == Cardinality(EdgeSet(r.graph)) <= MaxEdges

LoadFromFile(file) ==
    LET r == load_from_file(graph, current_weather, file) IN
    /\ WithinBounds(r)
    /\ Becomes("load_from_file", r)

SetWeather(weather_type) ==
    Becomes("set_weather", set_weather(graph, current_weather, weather_type))

AddCity(city_name) ==
    Becomes("add_city", add_city(graph, current_weather, city_name))

AddConnection(from_city, to_city, times) ==
    LET r == add_connection(graph, current_weather, from_city, to_city, times) IN
    /\ WithinBounds(r)
    /\ Becomes("add_connection", r)

RemoveConnection(from_city, to_city) ==
    Becomes("remove_connection",
            remove_connection(graph, current_weather, from_city, to_city))

Next ==
    \/ \E file \in Files : LoadFromFile(file)
    \/ \E weather_type \in WeatherInputs : SetWeather(weather_type)
    \/ \E city_name \in InputCities : AddCity(city_name)
    \/ \E from_city \in InputCities, to_city \in InputCities, times \in TimesInputs :
          AddConnection(from_city, to_city, times)
    \/ \E from_city \in Cities, to_city \in Cities : RemoveConnection(from_city, to_city)

Spec == Init /\ [][Next]_vars

-----------------------------------------------------------------------------
(* The read-only queries of algorithms.py, applied to a graph that was     *)
(* built beforehand.  For a query ret also keeps the arguments of the call. *)

Answered(call, args, r) == [call |-> call, args |-> args, exc |-> r.exc, value |-> r.value]

\* the roads a graph under query is built from: every ordered pair of input
\* cities (self-loops included) with its four times
RoadMap ==
    { <<"A", "B", Times(5, 8, 10, 15)>>,
      <<"B", "C", Times(3, 4, 6, 9)>>,
      <<"A", "C", Times(15, 12, 16, 5)>>,
      <<"B", "A", Times(1, 2, 20, 0)>>,
      <<"C", "B", Times(2, 3, 5, 8)>>,
      <<"C", "A", Times(4, 4, 4, 4)>>,
      <<"A", "A", Times(7, 10, 12, 18)>>,
      <<"B", "B", Times(0, 0, 0, 0)>>,
      <<"C", "C", Times(1, 1, 1, 1)>> }

\* add_city for every city of the set S
RECURSIVE add_cities(_, _)
add_cities(G, S) ==
    IF S = {} THEN G
    ELSE LET c == CHOOSE x \in S : TRUE
         IN  add_cities(add_city(G, "normal", c).graph, S \ {c})

\* add_connection for every road of the set R
RECURSIVE connect_all(_, _)
connect_all(G, R) ==
    IF R = {} THEN G
    ELSE LET r == CHOOSE x \in R : TRUE
         IN  connect_all(add_connection(G, "normal", r[1], r[2], r[3]).graph, R \ {r})

\* the graphs the queries are applied to: the sample graph of the tests, and
\* every graph of at most MaxEdges roads of the map, with or without the
\* remaining input cities added as cities of their own
QueryGraphs ==
    {load_from_file(EmptyGraph, "normal", SampleFile).graph}
    \cup {connect_all(add_cities(EmptyGraph, S), R) :
            S \in {{}, InputCities},
            R \in {X \in SUBSET RoadMap : Cardinality(X) <= MaxEdges}}

\* a graph is built, then the weather is selected
InitQ ==
    \E G \in QueryGraphs, weather_type \in ValidWeatherSet :
       LET r == set_weather(G, "normal", weather_type) IN
       /\ graph = r.graph
       /\ current_weather = r.current_weather
       /\ ret = Returned("set_weather", r.ret)

ShortestPath(start, end) ==
    /\ \E ord \in Orders(graph.nodes) :
          ret' = Answered("shortest_path", <<start, end>>,
                          [exc |-> None, value |-> shortest_path(graph, start, end, ord)])
    /\ UNCHANGED <<graph, current_weather>>

AllPairsShortestPaths ==
    /\ \E ord \in Orders(graph.nodes) :
          ret' = Answered("all_pairs_shortest_paths", <<>>,
                          [exc |-> None, value |-> all_pairs_shortest_paths(graph, ord)])
    /\ UNCHANGED <<graph, current_weather>>

FindCenter ==
    /\ \/ /\ graph.nodes = {}
          /\ ret' = Answered("find_center", <<>>, find_center(graph, {}, <<>>))
       \/ \E largest_scc \in LargestComponents(graph) :
            \E ord \in Orders(working_graph(graph, largest_scc).nodes) :
               ret' = Answered("find_center", <<>>, find_center(graph, largest_scc, ord))
    /\ UNCHANGED <<graph, current_weather>>

GetAdjacencyMatrix ==
    /\ ret' = Answered("get_adjacency_matrix", <<>>,
                       [exc |-> None, value |-> get_adjacency_matrix(graph)])
    /\ UNCHANGED <<graph, current_weather>>

NextQ ==
    \/ \E start \in Cities, end \in Cities : ShortestPath(start, end)
    \/ AllPairsShortestPaths
    \/ FindCenter
    \/ GetAdjacencyMatrix

SpecQ == InitQ /\ [][NextQ]_vars

-----------------------------------------------------------------------------
(* Reference notions the properties are stated with (section 3 of the      *)
(* specification): paths, path cost, least cost                            *)

\* the four profile values of an edge
Profile(G, e) == Times(G.edges[e].normal, G.edges[e].rain, G.edges[e].snow, G.edges[e].storm)

\* p is a path of G: a sequence of one or more nodes whose consecutive pairs
\* are edges
IsPath(G, p) ==
    /\ Len(p) >= 1
    /\ \A i \in 1..Len(p) : p[i] \in G.nodes
    /\ \A i \in 1..(Len(p) - 1) : <<p[i], p[i + 1]>> \in DOMAIN G.edges

\* the paths from u to v of at most as many nodes as the graph has (with
\* non-negative weights a longer path is never cheaper than all of these)
Paths(G, u, v) ==
    {p \in UNION {[1..k -> G.nodes] : k \in 1..Cardinality(G.nodes)} :
        p[1] = u /\ p[Len(p)] = v /\ IsPath(G, p)}

RECURSIVE SumFrom(_, _, _)
SumFrom(G, p, i) ==
    IF i >= Len(p) THEN 0 ELSE G.edges[<<p[i], p[i + 1]>>].weight + SumFrom(G, p, i + 1)

PathCost(G, p) == SumFrom(G, p, 1)

HasPath(G, u, v) == Paths(G, u, v) # {}

\* least cost of a path from u to v (defined when there is one)
MinCost(G, u, v) ==
    LET costs == {PathCost(G, p) : p \in Paths(G, u, v)}
    IN  CHOOSE c \in costs : \A d \in costs : c <= d

\* the graph is the one of the sample file: A->B(5,8,10,15), B->C(3,4,6,9),
\* C->D(2,3,5,8), A->D(15,20,25,30)
IsSampleGraph(G) ==
    /\ G.nodes = {"A", "B", "C", "D"}
    /\ DOMAIN G.edges = {<<"A", "B">>, <<"B", "C">>, <<"C", "D">>, <<"A", "D">>}
    /\ Profile(G, <<"A", "B">>) = Times(5, 8, 10, 15)
    /\ Profile(G, <<"B", "C">>) = Times(3, 4, 6, 9)
    /\ Profile(G, <<"C", "D">>) = Times(2, 3, 5, 8)
    /\ Profile(G, <<"A", "D">>) = Times(15, 20, 25, 30)

-----------------------------------------------------------------------------
(* Properties *)

\* C1: whenever shortest_path(start, end) was called with two nodes of the
\* graph and end reachable from start, it returned a path from start to end
\* along edges of the graph and a cost equal to the sum of the active weights
\* on that path, and no path from start to end costs less; on the sample
\* graph the call (A, D) returned [A,B,C,D], with cost 10 under normal and
\* cost 15 under rain.
C1_ShortestPathIsCheapest ==
    (ret.call = "shortest_path") =>
        LET start == ret.args[1]
            end == ret.args[2]
        IN  (start \in graph.nodes /\ end \in graph.nodes /\ HasPath(graph, start, end)) =>
              /\ ret.exc = None
              /\ ret.value[1] # None /\ ret.value[2] # None
              /\ LET path == TheValue(ret.value[1])
                     cost == TheValue(ret.value[2])
                 IN  /\ IsPath(graph, path)
                     /\ path[1] = start /\ path[Len(path)] = end
                     /\ cost = PathCost(graph, path)
                     /\ \A q \in Paths(graph, start, end) : cost <= PathCost(graph, q)
                     /\ (IsSampleGraph(graph) /\ start = "A" /\ end = "D") =>
                           /\ current_weather = "normal" =>
                                 path = <<"A", "B", "C", "D">> /\ cost = 10
                           /\ current_weather = "rain" =>
                                 path = <<"A", "B", "C", "D">> /\ cost = 15

\* C1 witness: on the sample graph under rain, shortest_path(A, D) has
\* returned the three-edge path with cost 15 although the direct edge exists
C1_Witness ==
    /\ ret.call = "shortest_path"
    /\ ret.args = <<"A", "D">>
    /\ IsSampleGraph(graph)
    /\ current_weather = "rain"
    /\ ret.value = <<Some(<<"A", "B", "C", "D">>), Some(15)>>

\* C2: in every state reached by completed calls of load_from_file, add_city,
\* add_connection, remove_connection and set_weather, current_weather is one
\* of the four weather names and the active weight of every edge is that
\* edge's profile value for current_weather.
C2_ActiveWeightFollowsWeather ==
    /\ current_weather \in {"normal", "rain", "snow", "storm"}
    /\ \A e \in DOMAIN graph.edges :
          graph.edges[e].weight = Profile(graph, e)[current_weather]

\* C3: a step set_weather(p) with p one of the four weather names returns
\* True, leaves current_weather = p, keeps the edges and their profiles, and
\* leaves on every edge an active weight equal to that edge's own p value
\* (so an edge with profiles (5,8,10,15) has weight 8 after 'rain').
C3_SetWeatherRewritesEveryEdge ==
    [][ (ret'.call = "set_weather") =>
          \A p \in {"normal", "rain", "snow", "storm"} :
             SetWeather(p) =>
               /\ ret'.value = TRUE
               /\ current_weather' = p
               /\ graph'.nodes = graph.nodes
               /\ DOMAIN graph'.edges = DOMAIN graph.edges
               /\ \A e \in DOMAIN graph.edges :
                     /\ Profile(graph', e) = Profile(graph, e)
                     /\ graph'.edges[e].weight = Profile(graph, e)[p]
                     /\ (Profile(graph, e) = Times(5, 8, 10, 15) /\ p = "rain") =>
                           graph'.edges[e].weight = 8 ]_vars

\* C3 witness: set_weather('rain') has returned True on a graph of three
\* edges, one of them A->B with profiles (5,8,10,15), now of weight 8
C3_Witness ==
    /\ ret.call = "set_weather" /\ ret.value = TRUE
    /\ current_weather = "rain"
    /\ Cardinality(DOMAIN graph.edges) = 3
    /\ <<"A", "B">> \in DOMAIN graph.edges
    /\ Profile(graph, <<"A", "B">>) = Times(5, 8, 10, 15)
    /\ graph.edges[<<"A", "B">>].weight = 8

\* C4: a call of shortest_path with start or end not a node of the graph
\* raises nothing and returns a value that differs from the value the
\* function returns for two nodes without a path between them, so that the
\* caller can tell UnknownNode from NoPath by the returned value; the call
\* for two nodes without a path raises nothing either.
C4_FailureKindsAreDistinct ==
    (ret.call = "shortest_path") =>
        LET start == ret.args[1]
            end == ret.args[2]
        IN  /\ ret.exc = None
            /\ (start \notin graph.nodes \/ end \notin graph.nodes) =>
                  \A u \in graph.nodes, v \in graph.nodes :
                     ~HasPath(graph, u, v) =>
                        \A ord \in Orders(graph.nodes) :
                           shortest_path(graph, u, v, ord) # ret.value

\* C5: in every reachable state, add_connection(from, to, times) returns
\* True and yields a state in which the nodes are the earlier ones plus from
\* and to, the edges are the earlier ones plus from->to, that edge carries
\* exactly the four values of times and as active weight the value of times
\* for the current weather, every other edge and the current weather are as
\* before; and the same call made again on the state it yields changes
\* nothing.
C5_AddConnectionIsUpsert ==
    \A from_city \in InputCities, to_city \in InputCities, times \in TimesInputs :
       LET r == add_connection(graph, current_weather, from_city, to_city, times)
           again == add_connection(r.graph, r.current_weather, from_city, to_city, times)
       IN  /\ r.ret = TRUE
           /\ r.current_weather = current_weather
           /\ r.graph.nodes = graph.nodes \cup {from_city, to_city}
           /\ DOMAIN r.graph.edges = DOMAIN graph.edges \cup {<<from_city, to_city>>}
           /\ r.graph.edges[<<from_city, to_city>>] =
                 [normal |-> times.normal, rain |-> times.rain, snow |-> times.snow,
                  storm |-> times.storm, weight |-> times[current_weather]]
           /\ \A e \in DOMAIN graph.edges \ {<<from_city, to_city>>} :
                 r.graph.edges[e] = graph.edges[e]
           /\ again.graph = r.graph
           /\ again.current_weather = r.current_weather

\* C5 witness: under snow, add_connection has replaced the times of an edge
\* A->B next to another edge: A->B now carries (1,2,20,0) and weight 20
C5_Witness ==
    /\ ret.call = "add_connection" /\ ret.value = TRUE
    /\ current_weather = "snow"
    /\ Cardinality(DOMAIN graph.edges) >= 2
    /\ <<"A", "B">> \in DOMAIN graph.edges
    /\ graph.edges[<<"A", "B">>] =
          [normal |-> 1, rain |-> 2, snow |-> 20, storm |-> 0, weight |-> 20]

\* C6: in every reachable state, remove_connection(from, to) on an existing
\* edge returns True and yields a state without that edge and otherwise
\* equal (nodes, other edges and weather stay), on which shortest_path(from,
\* to) returns (None, None) when no path from -> to is left and otherwise the
\* least cost of the remaining paths; when from->to is no edge (or an
\* endpoint no node) it returns False and yields the same state.
C6_RemoveConnectionFrame ==
    \A from_city \in Cities, to_city \in Cities :
       LET r == remove_connection(graph, current_weather, from_city, to_city) IN
       IF <<from_city, to_city>> \in DOMAIN graph.edges
       THEN /\ r.ret = TRUE
            /\ r.current_weather = current_weather
            /\ r.graph.nodes = graph.nodes
            /\ DOMAIN r.graph.edges = DOMAIN graph.edges \ {<<from_city, to_city>>}
            /\ \A e \in DOMAIN r.graph.edges : r.graph.edges[e] = graph.edges[e]
            /\ LET expected == IF HasPath(r.graph, from_city, to_city)
                                THEN Some(MinCost(r.graph, from_city, to_city))
                                ELSE None
               IN  \A ord \in Orders(r.graph.nodes) :
                      LET sp == shortest_path(r.graph, from_city, to_city, ord)
                      IN  sp[2] = expected /\ (expected = None => sp = <<None, None>>)
       ELSE /\ r.ret = FALSE
            /\ r.graph = graph
            /\ r.current_weather = current_weather

\* C6 witness: remove_connection has returned True and left a graph in
\* which some pair of nodes is joined by a two-edge path but by no edge (the
\* alternate route of a removed direct edge), and another edge can be removed
C6_Witness ==
    /\ ret.call = "remove_connection" /\ ret.value = TRUE
    /\ \E u \in graph.nodes, v \in graph.nodes, w \in graph.nodes :
          /\ u # v /\ u # w /\ v # w
          /\ <<u, v>> \notin DOMAIN graph.edges
          /\ <<u, w>> \in DOMAIN graph.edges /\ <<w, v>> \in DOMAIN graph.edges
    /\ Cardinality(DOMAIN graph.edges) = 2

\* C7: on a graph whose active weights are all non-negative,
\* all_pairs_shortest_paths returns an entry for every ordered pair (u, v) of
\* nodes: 0 when u = v, the least cost of a path from u to v when there is
\* one, and inf when there is none.
C7_AllPairsIsDenseAndLeast ==
    (/\ ret.call = "all_pairs_shortest_paths"
     /\ \A e \in DOMAIN graph.edges : graph.edges[e].weight >= 0) =>
        \A u \in graph.nodes, v \in graph.nodes :
           /\ <<u, v>> \in DOMAIN ret.value
           /\ ret.value[<<u, v>>] =
                 IF u = v THEN 0
                 ELSE IF HasPath(graph, u, v) THEN MinCost(graph, u, v)
                 ELSE Inf

\* C7 witness: the result holds an inf entry for an unreachable pair and,
\* for another pair, a distance below the weight of its direct edge
C7_Witness ==
    /\ ret.call = "all_pairs_shortest_paths"
    /\ \E u \in graph.nodes, v \in graph.nodes :
          ~HasPath(graph, u, v) /\ ret.value[<<u, v>>] = Inf
    /\ \E e \in DOMAIN graph.edges :
          e[1] # e[2] /\ ret.value[e] < graph.edges[e].weight

\* C8 as stated: for every edge u->v with u # v the all-pairs entry of
\* (u, v) is greater than or equal to the active weight of that edge.
C8_EntryAtLeastDirectEdge ==
    (ret.call = "all_pairs_shortest_paths") =>
        \A e \in DOMAIN graph.edges :
           e[1] # e[2] => ret.value[e] >= graph.edges[e].weight

\* C8 amended: for every edge u->v with u # v the all-pairs entry of (u, v)
\* is less than or equal to the active weight of that edge.
C8_EntryAtMostDirectEdge ==
    (ret.call = "all_pairs_shortest_paths") =>
        \A e \in DOMAIN graph.edges :
           e[1] # e[2] =>
              /\ e \in DOMAIN ret.value
              /\ ret.value[e] <= graph.edges[e].weight

\* C8 witness: an all-pairs result in which the entry of a direct edge is
\* strictly below the edge's weight, and the entry of another equals it
C8_Witness ==
    /\ ret.call = "all_pairs_shortest_paths"
    /\ \E e \in DOMAIN graph.edges : e[1] # e[2] /\ ret.value[e] < graph.edges[e].weight
    /\ \E e \in DOMAIN graph.edges : e[1] # e[2] /\ ret.value[e] = graph.edges[e].weight

\* strongly connected components and eccentricity, from the definitions of
\* the glossary
Component(G, u) == {v \in G.nodes : HasPath(G, u, v) /\ HasPath(G, v, u)}

Components(G) == {Component(G, u) : u \in G.nodes}

\* the node sets find_center may work on: all nodes if the graph is strongly
\* connected, otherwise the components of maximum size
WorkingSets(G) ==
    IF \A u \in G.nodes, v \in G.nodes : HasPath(G, u, v)
    THEN {G.nodes}
    ELSE {c \in Components(G) : \A d \in Components(G) : Cardinality(c) >= Cardinality(d)}

\* largest least-cost distance from n to another node of W (0 if W = {n})
Ecc(G, W, n) ==
    LET ds == {MinCost(G, n, t) : t \in W \ {n}}
    IN  IF ds = {} THEN 0 ELSE CHOOSE d \in ds : \A x \in ds : d >= x

\* C9: a find_center step on a non-empty graph leaves the graph and the
\* weather unchanged, raises nothing, and returns a node of a working set
\* (all nodes if the graph is strongly connected, otherwise a strongly
\* connected component of maximum size) whose eccentricity within that set is
\* the least of the set.
C9_CenterHasLeastEccentricity ==
    [][ (ret'.call = "find_center" /\ graph.nodes # {}) =>
          /\ graph' = graph
          /\ current_weather' = current_weather
          /\ ret'.exc = None
          /\ ret'.value # None
          /\ \E W \in WorkingSets(graph) :
                /\ TheValue(ret'.value) \in W
                /\ \A n \in W : Ecc(graph, W, TheValue(ret'.value)) <= Ecc(graph, W, n) ]_vars

\* C9 witness: find_center has answered on a graph that is not strongly
\* connected, whose largest component has two nodes of different
\* eccentricity and leaves a third node outside
C9_Witness ==
    /\ ret.call = "find_center" /\ ret.exc = None /\ ret.value # None
    /\ Cardinality(graph.nodes) = 3
    /\ \E W \in WorkingSets(graph) :
          /\ Cardinality(W) = 2
          /\ TheValue(ret.value) \in W
          /\ \E n \in W : Ecc(graph, W, TheValue(ret.value)) < Ecc(graph, W, n)

\* C10: get_adjacency_matrix returns the nodes in lexicographic order and a
\* square matrix over that order whose diagonal cells are all 0 and whose
\* cell (i, j), i # j, is the active weight of the edge i->j if there is one
\* and inf otherwise; self-loops are allowed in the graph.
C10_AdjacencyMatrixShape ==
    (ret.call = "get_adjacency_matrix") =>
        LET adj_matrix == ret.value[1]
            nodes == ret.value[2]
            n == Len(nodes)
        IN  /\ {nodes[i] : i \in 1..n} = graph.nodes
            /\ n = Cardinality(graph.nodes)
            /\ \A i \in 1..n, j \in 1..n : i < j => Rank(nodes[i]) < Rank(nodes[j])
            /\ DOMAIN adj_matrix = (1..n) \X (1..n)
            /\ \A i \in 1..n, j \in 1..n :
                  adj_matrix[<<i, j>>] =
                     IF i = j THEN 0
                     ELSE IF <<nodes[i], nodes[j]>> \in DOMAIN graph.edges
                          THEN graph.edges[<<nodes[i], nodes[j]>>].weight
                          ELSE Inf

\* the cell of a returned adjacency matrix m = (adj_matrix, nodes) for (u, v)
Cell(m, u, v) == m[1][<<Pos(m[2], u), Pos(m[2], v)>>]

\* v is reachable from u by a path of two or more edges
HasIndirectPath(G, u, v) ==
    \E w \in G.nodes :
       /\ <<u, w>> \in DOMAIN G.edges
       /\ w # v
       /\ HasPath(G, w, v)

C12_SetWeatherIsIdempotent ==
    \A p \in ValidWeatherSet :
       LET once == set_weather(graph, current_weather, p)
           twice == set_weather(once.graph, once.current_weather, p)
       IN  /\ once.ret = TRUE /\ twice.ret = TRUE
           /\ twice.current_weather = once.current_weather
           /\ twice.graph.nodes = once.graph.nodes
           /\ DOMAIN twice.graph.edges = DOMAIN once.graph.edges
           /\ \A e \in DOMAIN once.graph.edges :
                 /\ Profile(twice.graph, e) = Profile(once.graph, e)
                 /\ twice.graph.edges[e].weight = once.graph.edges[e].weight
           /\ twice.graph = once.graph

\* C12 witness: set_weather('snow') has just returned True on a graph of
\* three edges whose snow times differ from their normal times, and a second
\* set_weather('snow') is about to leave this state as it is
C12_Witness ==
    /\ ret.call = "set_weather" /\ ret.value = TRUE
    /\ current_weather = "snow"
    /\ Cardinality(DOMAIN graph.edges) = 3
    /\ \A e \in DOMAIN graph.edges :
          graph.edges[e].weight = graph.edges[e].snow /\ graph.edges[e].snow # graph.edges[e].normal
    /\ set_weather(graph, current_weather, "snow").graph = graph

\* C13: find_center returns None only if the working node set is empty: on a
\* graph with no nodes it raises nothing and returns None, and on a graph
\* with at least one node (strongly connected or not, with or without edges)
\* it raises nothing and returns a node of the graph.
C13_CenterUndefinedOnlyWhenEmpty ==
    (ret.call = "find_center") =>
        /\ ret.exc = None
        /\ (graph.nodes = {}) => ret.value = None
        /\ (graph.nodes # {}) => (ret.value # None /\ TheValue(ret.value) \in graph.nodes)

====
